---- MODULE Spec2Model ----
(***************************************************************************)
(* Model of the license-token service of src/api.py: one sqlite table      *)
(* `tokens`, the handlers /verify, /generate, /admin/verify,               *)
(* /admin/unbind and /admin/revoke, and the admin-key check.               *)
(*                                                                         *)
(* The handlers are sync functions that run in worker threads, so a step   *)
(* is one access to shared state: one SQL statement with its commit, or    *)
(* one reading of the clock.  verify is three steps (SELECT; the checks,   *)
(* which read the clock; UPDATE), generate is two (the clock; INSERT),     *)
(* admin_verify is two (SELECT; the clock), admin_unbind and admin_revoke  *)
(* are one (UPDATE).  Other requests can commit between the steps.         *)
(*                                                                         *)
(* A handler whose SQL statement raises never reaches its con.close(): an  *)
(* INSERT that fails on the primary key leaves its connection open inside  *)
(* a write transaction, which keeps the database locked for writers until  *)
(* the garbage collector closes the connection.                            *)
(*                                                                         *)
(* SQL NULL / Python None is the empty set, a value v is {v}.              *)
(***************************************************************************)
EXTENDS Integers, FiniteSets, TLC

VARIABLES
    tokens,      \* the table: a set of rows [token, hwid, expires_at, revoked]
    now,         \* time.time(), in clock ticks of 1/TicksPerSecond second
    environ,     \* os.environ.get("ADMIN_KEY"): None or {key}
    locked,      \* a leaked connection holds the write lock of the database
    pc,          \* per worker: "idle"; verify: "selected" (after SELECT), "update"
                 \* (before UPDATE); generate: "insert" (before INSERT);
                 \* admin_verify: "remaining" (after SELECT, before the clock)
    req,         \* per worker: None or {the request it handles}
    row,         \* per worker: the handler's local variables: the fetchone() result of
                 \* verify and admin_verify, [token, expires_at] of generate
    last,        \* the exchange the latest step completed (NoExchange if it completed none)
    revokeDone,  \* history: token strings whose row an authorised admin_revoke has updated
    late         \* history, per worker: its token was in revokeDone when its verify started

vars == <<tokens, now, environ, locked, pc, req, row, last, revokeDone, late>>

None == {}
Some(x) == {x}
Val(o) == CHOOSE x \in o : TRUE

----------------------------------------------------------------------------
(* Bounds and input pools *)

\* time.time() is a float: the model counts it in ticks of 1/TicksPerSecond
\* second.  The clock starts at T0; the model follows it through the first
\* MaxTicks ticks of each of the days ClockDays
TicksPerSecond == 2
T0 == 1
MaxTicks == 2
ClockDays == {0, 1}

Workers == {"w1", "w2"}
\* the strings secrets.token_hex hands to generate
TokenPool == {"OLLY-00000000000000000000000A"}
\* a well-formed token string that secrets.token_hex never hands out
Unissued == "OLLY-00000000000000000000000B"
\* the token strings clients present
Presented == TokenPool \cup {Unissued}
\* the record of Unissued that an earlier run of the service has left in
\* /data/tokens.db: never bound, without expiry date, revoked
OldRecord == [token |-> Unissued, hwid |-> None, expires_at |-> None, revoked |-> 1]
Hwids == {"A", "B"}
PlanInputs == {"1D", "infinite", "99x"}
Headers == {None, Some("olly6969"), Some("s3cret")}
Environs == {None, Some("s3cret")}

----------------------------------------------------------------------------
(* Configuration *)

DAY == 86400

\* a number of seconds, in clock ticks
Ticks(seconds) == seconds * TicksPerSecond

\* int(x) of a float x given in clock ticks: the whole seconds, rounded towards zero
IntOf(x) == IF x >= 0 THEN x \div TicksPerSecond ELSE -((-x) \div TicksPerSecond)

DEFAULT_ADMIN_KEY == "olly6969"

\* ADMIN_KEY = os.getenv("ADMIN_KEY", "olly6969")
ADMIN_KEY == IF environ = None THEN DEFAULT_ADMIN_KEY ELSE Val(environ)

PLAN_DURATIONS ==
    ("1d" :> Some(1 * DAY)) @@ ("3d" :> Some(3 * DAY)) @@
    ("1w" :> Some(7 * DAY)) @@ ("2w" :> Some(14 * DAY)) @@
    ("3w" :> Some(21 * DAY)) @@ ("6w" :> Some(42 * DAY)) @@
    ("1m" :> Some(30 * DAY)) @@ ("2m" :> Some(60 * DAY)) @@
    ("3m" :> Some(90 * DAY)) @@ ("6m" :> Some(180 * DAY)) @@
    ("9m" :> Some(270 * DAY)) @@
    ("1y" :> Some(365 * DAY)) @@ ("2y" :> Some(730 * DAY)) @@
    ("infinite" :> None)

\* str.lower() on the plan strings the model feeds in
lower(s) ==
    CASE s = "1D" -> "1d"
      [] s = "INFINITE" -> "infinite"
      [] s = "Infinite" -> "infinite"
      [] OTHER -> s

----------------------------------------------------------------------------
(* Responses *)

Ok(body) == [status |-> 200, body |-> body]
HTTPException(code, detail) == [status |-> code, body |-> [detail |-> detail]]
\* an uncaught exception in a handler: FastAPI answers 500
ServerError == [status |-> 500, body |-> [detail |-> "Internal Server Error"]]

\* the detail of generate's 400: the keys of PLAN_DURATIONS in their order
InvalidPlan ==
    HTTPException(400,
        "Invalid plan. Valid plans: 1d, 3d, 1w, 2w, 3w, 6w, 1m, 2m, 3m, 6m, 9m, 1y, 2y, infinite")

\* a completed exchange.  `cleared` is history: for an authorised admin_unbind,
\* the hwid its UPDATE overwrote; None for every other exchange
Exchange(op, args, resp, cleared) ==
    [op |-> op, args |-> args, status |-> resp.status, body |-> resp.body,
     cleared |-> cleared]

\* the step answered no request
NoExchange == Exchange("none", None, [status |-> 0, body |-> [status |-> "none"]], None)

----------------------------------------------------------------------------
(* The table *)

Matching(tbl, t) == {r \in tbl : r.token = t}

\* SELECT expires_at, hwid, revoked FROM tokens WHERE token = ?; fetchone()
Select(tbl, t) ==
    LET rs == {[expires_at |-> r.expires_at, hwid |-> r.hwid, revoked |-> r.revoked] :
                   r \in Matching(tbl, t)}
    IN  IF rs = {} THEN None ELSE Some(CHOOSE r \in rs : TRUE)

\* faulty variant: the table without its primary key
PrimaryKeyFree_NoKey(tbl, t) == TRUE

\* token TEXT PRIMARY KEY: an INSERT of an existing key raises IntegrityError
PrimaryKeyFree(tbl, t) == Matching(tbl, t) = {}

\* INSERT INTO tokens (token, expires_at, revoked) VALUES (?, ?, 0); hwid defaults to NULL
Insert(tbl, t, e) ==
    tbl \cup {[token |-> t, hwid |-> None, expires_at |-> e, revoked |-> 0]}

\* faulty variant: the UPDATE of hwid also clears revoked
UpdateHwid_ClearsRevoked(tbl, t, h) ==
    {IF r.token = t THEN [r EXCEPT !.hwid = h, !.revoked = 0] ELSE r : r \in tbl}

\* faulty variant: the UPDATE of hwid only touches rows whose hwid is NULL
UpdateHwid_OnlyNull(tbl, t, h) ==
    {IF r.token = t /\ r.hwid = None THEN [r EXCEPT !.hwid = h] ELSE r : r \in tbl}

\* UPDATE tokens SET hwid = ? WHERE token = ?
UpdateHwid(tbl, t, h) ==
    {IF r.token = t THEN [r EXCEPT !.hwid = h] ELSE r : r \in tbl}

\* faulty variant: the UPDATE of revoked also clears hwid
UpdateRevoked_ClearsHwid(tbl, t) ==
    {IF r.token = t THEN [r EXCEPT !.revoked = 1, !.hwid = None] ELSE r : r \in tbl}

\* UPDATE tokens SET revoked = 1 WHERE token = ?
UpdateRevoked(tbl, t) ==
    {IF r.token = t THEN [r EXCEPT !.revoked = 1] ELSE r : r \in tbl}

----------------------------------------------------------------------------
(* Pure parts of the handlers *)

\* require_admin: the header is compared with os.environ.get("ADMIN_KEY")
require_admin(x_admin_key) == x_admin_key = environ

\* faulty variant: a token expires at expires_at, not after it
Expired_AtDeadline(expires_at, t) ==
    /\ expires_at # None
    /\ Val(expires_at) # 0
    /\ t >= Val(expires_at)

\* `expires_at and time.time() > expires_at`
Expired(expires_at, t) ==
    /\ expires_at # None
    /\ Val(expires_at) # 0
    /\ t > Val(expires_at)

\* not a response: verify goes on to its UPDATE (line 99)
NeedsUpdate == [status |-> 0, body |-> [detail |-> "UPDATE"]]

\* faulty variant: the hwid check before the expiry check
VerifyChecks_MismatchFirst(r, hwid, t) ==
    IF r = None THEN HTTPException(401, "Invalid token")
    ELSE IF Val(r).revoked # 0 THEN HTTPException(403, "Token revoked")
    ELSE IF Val(r).hwid \notin {None, Some(hwid)} THEN HTTPException(403, "HWID mismatch")
    ELSE IF Expired(Val(r).expires_at, t) THEN HTTPException(403, "Token expired")
    ELSE IF Val(r).hwid = None THEN NeedsUpdate
    ELSE Ok([status |-> "ok"])

\* faulty variant: the expiry check before the revoked check
VerifyChecks_ExpiredFirst(r, hwid, t) ==
    IF r = None THEN HTTPException(401, "Invalid token")
    ELSE IF Expired(Val(r).expires_at, t) THEN HTTPException(403, "Token expired")
    ELSE IF Val(r).revoked # 0 THEN HTTPException(403, "Token revoked")
    ELSE IF Val(r).hwid = None THEN NeedsUpdate
    ELSE IF Val(r).hwid # Some(hwid) THEN HTTPException(403, "HWID mismatch")
    ELSE Ok([status |-> "ok"])

\* faulty variant: an unbound token is bound before its expiry is checked
VerifyChecks_BindFirst(r, hwid, t) ==
    IF r = None THEN HTTPException(401, "Invalid token")
    ELSE IF Val(r).revoked # 0 THEN HTTPException(403, "Token revoked")
    ELSE IF Val(r).hwid = None THEN NeedsUpdate
    ELSE IF Expired(Val(r).expires_at, t) THEN HTTPException(403, "Token expired")
    ELSE IF Val(r).hwid # Some(hwid) THEN HTTPException(403, "HWID mismatch")
    ELSE Ok([status |-> "ok"])

\* the checks of verify on the fetched row, in the order of the code
VerifyChecks(r, hwid, t) ==
    IF r = None THEN HTTPException(401, "Invalid token")
    ELSE IF Val(r).revoked # 0 THEN HTTPException(403, "Token revoked")
    ELSE IF Expired(Val(r).expires_at, t) THEN HTTPException(403, "Token expired")
    ELSE IF Val(r).hwid = None THEN NeedsUpdate
    ELSE IF Val(r).hwid # Some(hwid) THEN HTTPException(403, "HWID mismatch")
    ELSE Ok([status |-> "ok"])

\* faulty variant: expires_at is the duration, not the deadline
ExpiresAt_Duration(plan, t) == PLAN_DURATIONS[plan]

\* generate, lines 125-126: expires_at of the new token
ExpiresAt(plan, t) ==
    LET duration == PLAN_DURATIONS[plan]
    IN  IF duration = None THEN None ELSE Some(t + Ticks(Val(duration)))

\* faulty variant: seconds_remaining without max(0, ...)
SecondsRemaining_Negative(expires_at, t) ==
    IF expires_at # None /\ Val(expires_at) # 0
    THEN Some(IntOf(Val(expires_at) - t))
    ELSE None

\* seconds_remaining of admin_verify
SecondsRemaining(expires_at, t) ==
    IF expires_at # None /\ Val(expires_at) # 0
    THEN LET d == IntOf(Val(expires_at) - t) IN Some(IF 0 >= d THEN 0 ELSE d)
    ELSE None

----------------------------------------------------------------------------
(* Initial state: init_db has run.  CREATE TABLE IF NOT EXISTS creates the  *)
(* empty table in a fresh database file and keeps the rows of a file that  *)
(* an earlier run has written.                                             *)

\* the state after start-up on a database that holds one of `tables`
InitOn(tables) ==
    /\ tokens \in tables
    /\ now = T0
    /\ environ \in Environs
    /\ locked = FALSE
    /\ pc = [w \in Workers |-> "idle"]
    /\ req = [w \in Workers |-> None]
    /\ row = [w \in Workers |-> None]
    /\ last = NoExchange
    /\ revokeDone = {r.token : r \in {x \in tokens : x.revoked # 0}}
    /\ late = [w \in Workers |-> FALSE]

\* start-up on a fresh database file
Init == InitOn({{}})

\* start-up on a fresh database file or on one that holds OldRecord
RestartInit == InitOn({{}, {OldRecord}})

----------------------------------------------------------------------------
(* Actions *)

\* the clock moves forward
Tick(d) ==
    /\ (now + d - T0) \div Ticks(DAY) \in ClockDays
    /\ (now + d - T0) % Ticks(DAY) <= MaxTicks
    /\ now' = now + d
    /\ last' = NoExchange
    /\ UNCHANGED <<tokens, environ, locked, pc, req, row, revokeDone, late>>

\* the garbage collector closes the connection that a failed INSERT left
\* open: its transaction is rolled back and the write lock released
Collect ==
    /\ locked
    /\ locked' = FALSE
    /\ last' = NoExchange
    /\ UNCHANGED <<tokens, now, environ, pc, req, row, revokeDone, late>>

\* worker w goes on to the next statement of its handler
Goto(w, label, request, locals) ==
    /\ pc' = [pc EXCEPT ![w] = label]
    /\ req' = [req EXCEPT ![w] = Some(request)]
    /\ row' = [row EXCEPT ![w] = locals]
    /\ last' = NoExchange

\* worker w answers the request it handles
Finish(w, op, resp) ==
    /\ pc' = [pc EXCEPT ![w] = "idle"]
    /\ req' = [req EXCEPT ![w] = None]
    /\ row' = [row EXCEPT ![w] = None]
    /\ late' = [late EXCEPT ![w] = FALSE]
    /\ last' = Exchange(op, Val(req[w]), resp, None)

\* verify, lines 78-86: the SELECT
verify_select(w, token, hwid) ==
    /\ pc[w] = "idle"
    /\ Goto(w, "selected", [token |-> token, hwid |-> hwid], Select(tokens, token))
    /\ late' = [late EXCEPT ![w] = token \in revokeDone]
    /\ UNCHANGED <<tokens, now, environ, locked, revokeDone>>

\* verify, lines 88-99 and 108-111: the checks, up to a response or the UPDATE
verify_check(w) ==
    /\ pc[w] = "selected"
    /\ LET resp == VerifyChecks(row[w], Val(req[w]).hwid, now)
       IN  IF resp = NeedsUpdate
           THEN /\ Goto(w, "update", Val(req[w]), None)
                /\ UNCHANGED late
           ELSE Finish(w, "verify", resp)
    /\ UNCHANGED <<tokens, now, environ, locked, revokeDone>>

\* verify, lines 100-107 and 111: the UPDATE and the response; with the
\* database locked execute raises OperationalError
verify_update(w) ==
    /\ pc[w] = "update"
    /\ IF locked
       THEN /\ Finish(w, "verify", ServerError)
            /\ UNCHANGED tokens
       ELSE /\ tokens' = UpdateHwid(tokens, Val(req[w]).token, Some(Val(req[w]).hwid))
            /\ Finish(w, "verify", Ok([status |-> "ok"]))
    /\ UNCHANGED <<now, environ, locked, revokeDone>>

\* generate, lines 115-126: the plan, the token and the clock
generate_plan(w, plan_in, token) ==
    LET plan == lower(plan_in)
        args == [plan |-> plan_in]
    IN  /\ pc[w] = "idle"
        /\ IF plan \notin DOMAIN PLAN_DURATIONS
           THEN /\ last' = Exchange("generate", args, InvalidPlan, None)
                /\ UNCHANGED <<pc, req, row>>
           ELSE Goto(w, "insert", args,
                     Some([token |-> token, expires_at |-> ExpiresAt(plan, now)]))
        /\ UNCHANGED <<tokens, now, environ, locked, revokeDone, late>>

\* generate, lines 128-141: the INSERT and the response.  With the database
\* locked execute raises OperationalError; on an existing key it raises
\* IntegrityError inside the write transaction it has opened, and the
\* connection, never closed, keeps the database locked
generate_insert(w) ==
    LET plan == lower(Val(req[w]).plan)
        token == Val(row[w]).token
        expires_at == Val(row[w]).expires_at
    IN  /\ pc[w] = "insert"
        /\ IF locked
           THEN /\ Finish(w, "generate", ServerError)
                /\ UNCHANGED <<tokens, locked>>
           ELSE IF PrimaryKeyFree(tokens, token)
           THEN /\ tokens' = Insert(tokens, token, expires_at)
                /\ Finish(w, "generate",
                       Ok([token |-> token, plan |-> plan, expires_at |-> expires_at]))
                /\ UNCHANGED locked
           ELSE /\ Finish(w, "generate", ServerError)
                /\ locked' = TRUE
                /\ UNCHANGED tokens
        /\ UNCHANGED <<now, environ, revokeDone>>

Unauthorized == HTTPException(401, "Unauthorized")

\* admin_verify, lines 144-159: require_admin, the SELECT and the 404
admin_verify_select(w, token, key) ==
    LET args == [token |-> token, x_admin_key |-> key]
        r == Select(tokens, token)
    IN  /\ pc[w] = "idle"
        /\ IF ~require_admin(key)
           THEN /\ last' = Exchange("admin_verify", args, Unauthorized, None)
                /\ UNCHANGED <<pc, req, row>>
           ELSE IF r = None
           THEN /\ last' = Exchange("admin_verify", args,
                               HTTPException(404, "Token not found"), None)
                /\ UNCHANGED <<pc, req, row>>
           ELSE Goto(w, "remaining", args, r)
        /\ UNCHANGED <<tokens, now, environ, locked, revokeDone, late>>

\* admin_verify, lines 161-173: the clock and the response
admin_verify_remaining(w) ==
    /\ pc[w] = "remaining"
    /\ Finish(w, "admin_verify",
           Ok([token |-> Val(req[w]).token, hwid |-> Val(row[w]).hwid,
               revoked |-> (Val(row[w]).revoked # 0),
               expires_at |-> Val(row[w]).expires_at,
               seconds_remaining |-> SecondsRemaining(Val(row[w]).expires_at, now)]))
    /\ UNCHANGED <<tokens, now, environ, locked, revokeDone>>

\* admin_unbind; with the database locked execute raises OperationalError
admin_unbind(token, key) ==
    LET args == [token |-> token, x_admin_key |-> key]
    IN  /\ IF ~require_admin(key)
           THEN /\ last' = Exchange("admin_unbind", args, Unauthorized, None)
                /\ UNCHANGED tokens
           ELSE IF locked
           THEN /\ last' = Exchange("admin_unbind", args, ServerError, None)
                /\ UNCHANGED tokens
           ELSE /\ tokens' = UpdateHwid(tokens, token, None)
                /\ last' = Exchange("admin_unbind", args, Ok([status |-> "ok"]),
                               IF Select(tokens, token) = None THEN None
                               ELSE Val(Select(tokens, token)).hwid)
        /\ UNCHANGED <<now, environ, locked, pc, req, row, revokeDone, late>>

\* admin_revoke; with the database locked execute raises OperationalError
admin_revoke(token, key) ==
    LET args == [token |-> token, x_admin_key |-> key]
    IN  /\ IF ~require_admin(key)
           THEN /\ last' = Exchange("admin_revoke", args, Unauthorized, None)
                /\ UNCHANGED <<tokens, revokeDone>>
           ELSE IF locked
           THEN /\ last' = Exchange("admin_revoke", args, ServerError, None)
                /\ UNCHANGED <<tokens, revokeDone>>
           ELSE /\ tokens' = UpdateRevoked(tokens, token)
                /\ last' = Exchange("admin_revoke", args, Ok([status |-> "revoked"]), None)
                /\ revokeDone' = IF Select(tokens, token) = None THEN revokeDone
                                 ELSE revokeDone \cup {token}
        /\ UNCHANGED <<now, environ, locked, pc, req, row, late>>

----------------------------------------------------------------------------
(* Specifications *)

\* a request arrives that names one of the token strings `named`; the
\* handlers of more than one step need an idle worker
ArriveFor(named) ==
    \/ \E w \in Workers, t \in named, h \in Hwids : verify_select(w, t, h)
    \/ \E w \in Workers, p \in PlanInputs, t \in TokenPool : generate_plan(w, p, t)
    \/ \E w \in Workers, t \in named, k \in Headers : admin_verify_select(w, t, k)
    \/ \E t \in named, k \in Headers : admin_unbind(t, k)
    \/ \E t \in named, k \in Headers : admin_revoke(t, k)

\* a request arrives that names a token string generate draws
Arrive == ArriveFor(TokenPool)

\* a request in progress takes its next step
Proceed ==
    \/ \E w \in Workers : verify_check(w)
    \/ \E w \in Workers : verify_update(w)
    \/ \E w \in Workers : generate_insert(w)
    \/ \E w \in Workers : admin_verify_remaining(w)

Clock == \E d \in {1, Ticks(DAY)} : Tick(d)

Next == Arrive \/ Proceed \/ Clock \/ Collect

\* requests overlap freely
Spec == Init /\ [][Next]_vars

AllIdle == \A w \in Workers : pc[w] = "idle"

SeqNext == (AllIdle /\ Arrive) \/ Proceed \/ Clock \/ Collect

\* requests are handled one at a time
SeqSpec == Init /\ [][SeqNext]_vars

\* the clock is read again more than a day later
Later == Tick(Ticks(DAY) + 1)

RestartNext == ArriveFor(Presented) \/ Proceed \/ Later \/ Collect

\* requests overlap freely and name any string of Presented, on a database
\* that may hold OldRecord: a request can name a string without a record
\* while the table holds a record and while the database is locked, and a
\* statement on one record runs with another record in the table.  The
\* clock is followed from day to day only
RestartSpec == RestartInit /\ [][RestartNext]_vars

----------------------------------------------------------------------------
(* Vocabulary of the properties *)

\* the stored record of token string t: None or {[expires_at, hwid, revoked]}
Stored(t) == Select(tokens, t)
StoredNext(t) == Select(tokens', t)

\* worker w answers its verify request in this step
Answers(w) == pc[w] \in {"selected", "update"} /\ pc'[w] = "idle"

\* worker w runs the checks of its verify in this step
Checks(w) == pc[w] = "selected" /\ pc'[w] # "selected" /\ verify_check(w)

\* worker w runs the UPDATE of its verify in this step
Updates(w) == pc[w] = "update" /\ pc'[w] = "idle" /\ verify_update(w)

\* this step answers worker w's request with the given response
VerifyAnswer(w, resp) ==
    /\ Answers(w)
    /\ last' = Exchange("verify", Val(req[w]), resp, None)

TokenRevoked == HTTPException(403, "Token revoked")
TokenExpired == HTTPException(403, "Token expired")
HwidMismatch == HTTPException(403, "HWID mismatch")
InvalidToken == HTTPException(401, "Invalid token")
StatusOk == Ok([status |-> "ok"])

\* a record that exists, is not revoked and is not expired at time t
Valid(r, t) ==
    /\ r # None
    /\ Val(r).revoked = 0
    /\ (Val(r).expires_at = None \/ t <= Val(Val(r).expires_at))

AdminOps == {"admin_verify", "admin_unbind", "admin_revoke"}

----------------------------------------------------------------------------
(* C1: verify reports the first failing check in the order existence,      *)
(* revoked, expired, hwid mismatch: a missing row gives 401 Invalid token; *)
(* a revoked row gives Token revoked whatever its expiry and hwid; a       *)
(* non-revoked expired row gives Token expired whatever its hwid; HWID     *)
(* mismatch is answered exactly for an existing, non-revoked, non-expired  *)
(* row bound to another hwid.                                              *)
C1_CheckOrder ==
    [][\A w \in Workers : Checks(w) =>
        LET r == row[w]
            h == Val(req[w]).hwid
            exists == r # None
            revoked == exists /\ Val(r).revoked = 1
            expired == /\ exists
                       /\ Val(r).expires_at # None
                       /\ now > Val(Val(r).expires_at)
            other == exists /\ Val(r).hwid \notin {None, Some(h)}
        IN  /\ ~exists => VerifyAnswer(w, InvalidToken)
            /\ revoked => VerifyAnswer(w, TokenRevoked)
            /\ (exists /\ ~revoked /\ expired) => VerifyAnswer(w, TokenExpired)
            /\ VerifyAnswer(w, HwidMismatch)
                  <=> (exists /\ ~revoked /\ ~expired /\ other)]_vars

\* a verify was just answered Token revoked for a row that is also expired
\* and bound to another hwid
C1_Witness ==
    \E t \in Presented, h \in Hwids :
        /\ last = Exchange("verify", [token |-> t, hwid |-> h], TokenRevoked, None)
        /\ Stored(t) # None
        /\ Val(Stored(t)).revoked = 1
        /\ Expired(Val(Stored(t)).expires_at, now)
        /\ Val(Stored(t)).hwid \notin {None, Some(h)}

----------------------------------------------------------------------------
(* C2: with requests handled one at a time, a verify of a valid token      *)
(* (existing, not revoked, not expired) succeeds and binds the presented   *)
(* hwid when the stored hwid is null; when the stored hwid is A it         *)
(* succeeds iff the presented hwid is A, answers HWID mismatch otherwise,  *)
(* and leaves A stored; and a stored hwid stays as it is in every step     *)
(* that is not an authorised admin_unbind of that token.                   *)
C2_BindOnce ==
    [][/\ \A w \in Workers : Answers(w) =>
            LET t == Val(req[w]).token
                h == Val(req[w]).hwid
                r == Stored(t)
            IN  Valid(r, now) =>
                  IF Val(r).hwid = None
                  THEN /\ VerifyAnswer(w, StatusOk)
                       /\ Val(StoredNext(t)).hwid = Some(h)
                  ELSE /\ VerifyAnswer(w, StatusOk) <=> Val(r).hwid = Some(h)
                       /\ Val(r).hwid # Some(h) => VerifyAnswer(w, HwidMismatch)
                       /\ Val(StoredNext(t)).hwid = Val(r).hwid
       /\ \A t \in Presented :
            (/\ Stored(t) # None
             /\ Val(Stored(t)).hwid # None
             /\ ~ \E k \in Headers : require_admin(k) /\ admin_unbind(t, k))
            => /\ StoredNext(t) # None
               /\ Val(StoredNext(t)).hwid = Val(Stored(t)).hwid]_vars

----------------------------------------------------------------------------
(* C3: no step of verify replaces a non-null stored hwid by another value. *)
C3_VerifyNeverRebinds ==
    [][\A w \in Workers : Updates(w) =>
        LET t == Val(req[w]).token
        IN  (Stored(t) # None /\ Val(Stored(t)).hwid # None)
            => Val(StoredNext(t)).hwid = Val(Stored(t)).hwid]_vars

----------------------------------------------------------------------------
(* C4: an admin request is answered 401 exactly when its X-Admin-Key       *)
(* header is absent or differs from the configured secret ADMIN_KEY,       *)
(* whether or not the environment variable is set.                         *)
C4_AdminAuth ==
    last.op \in AdminOps =>
        (last.status = 401 <=> last.args.x_admin_key # Some(ADMIN_KEY))

----------------------------------------------------------------------------
(* C5: revoked is monotonic: a record's flag changes only from 0 to 1, and *)
(* only in an admin_revoke of its token; no step removes the record.       *)
C5_RevokedMonotonic ==
    [][tokens' # tokens => \A t \in Presented : Stored(t) # None =>
        /\ StoredNext(t) # None
        /\ Val(StoredNext(t)).revoked # Val(Stored(t)).revoked =>
              /\ Val(Stored(t)).revoked = 0
              /\ Val(StoredNext(t)).revoked = 1
              /\ \E k \in Headers : admin_revoke(t, k)]_vars

\* a revoked token was just unbound by the admin and is still revoked
C5_Witness ==
    \E t \in Presented :
        /\ t \in revokeDone
        /\ last.op = "admin_unbind" /\ last.status = 200 /\ last.args.token = t
        /\ Val(Stored(t)).revoked = 1

----------------------------------------------------------------------------
(* C6: a verify that starts after an admin_revoke of its existing token    *)
(* has completed never reaches its UPDATE and is answered Token revoked,   *)
(* whatever its hwid, the expiry and the operations in between.            *)
C6_RevokedStaysRefused ==
    [][\A w \in Workers : late[w] =>
        /\ pc'[w] # "update"
        /\ Answers(w) => VerifyAnswer(w, TokenRevoked)]_vars

\* after revoke and unbind, a first-use verify of the unexpired token was
\* just answered Token revoked
C6_Witness ==
    \E t \in Presented, h \in Hwids :
        /\ last = Exchange("verify", [token |-> t, hwid |-> h], TokenRevoked, None)
        /\ t \in revokeDone
        /\ Val(Stored(t)).hwid = None
        /\ ~Expired(Val(Stored(t)).expires_at, now)

----------------------------------------------------------------------------
(* C7: for an existing, non-revoked row verify answers Token expired       *)
(* exactly when expires_at is set and the clock is strictly past it (not   *)
(* at expires_at itself), whatever the hwid; a null expires_at never       *)
(* expires.                                                                *)
C7_StrictExpiry ==
    [][\A w \in Workers : Checks(w) =>
        LET r == row[w]
        IN  (r # None /\ Val(r).revoked = 0) =>
              IF Val(r).expires_at # None
              THEN VerifyAnswer(w, TokenExpired) <=> now > Val(Val(r).expires_at)
              ELSE ~VerifyAnswer(w, TokenExpired)]_vars

\* one clock tick after expires_at a verify with the bound hwid was just
\* answered Token expired
C7_Witness ==
    \E t \in Presented, h \in Hwids :
        /\ last = Exchange("verify", [token |-> t, hwid |-> h], TokenExpired, None)
        /\ Val(Stored(t)).revoked = 0
        /\ Val(Stored(t)).hwid = Some(h)
        /\ Val(Stored(t)).expires_at = Some(now - 1)

----------------------------------------------------------------------------
(* C8: with requests handled one at a time, an authorised admin_unbind of  *)
(* an existing token leaves its stored hwid null; the next verify of the   *)
(* valid unbound token succeeds with any hwid, so also with one other than *)
(* the cleared one, and stores it; and a verify with an hwid other than    *)
(* the stored one, so also with the cleared one, is answered HWID mismatch.*)
C8_UnbindRebind ==
    [][/\ \A t \in Presented, k \in Headers :
            (require_admin(k) /\ admin_unbind(t, k) /\ Stored(t) # None)
            => /\ Val(StoredNext(t)).hwid = None
               /\ last'.cleared = Val(Stored(t)).hwid
       /\ \A w \in Workers : (Answers(w) /\ Valid(Stored(Val(req[w]).token), now)) =>
            LET t == Val(req[w]).token
                h == Val(req[w]).hwid
            IN  /\ Val(Stored(t)).hwid = None =>
                      /\ VerifyAnswer(w, StatusOk)
                      /\ Val(StoredNext(t)).hwid = Some(h)
                /\ Val(Stored(t)).hwid \notin {None, Some(h)} =>
                      /\ VerifyAnswer(w, HwidMismatch)
                      /\ StoredNext(t) = Stored(t)]_vars

----------------------------------------------------------------------------
(* C9: generate reads the clock for a plan of the table and computes       *)
(* expires_at = now + the plan's duration (null for infinite); a generate  *)
(* answered 200 adds exactly one record, with that expires_at, null hwid   *)
(* and revoked 0, and returns its token, the lower-cased plan and that     *)
(* expires_at; a generate whose lower-cased plan is not in the table is    *)
(* answered 400 and leaves the table as it is.                             *)

\* the plan table of the specification, in seconds (0: unlimited)
PlanSeconds ==
    ("1d" :> 86400) @@ ("3d" :> 259200) @@ ("1w" :> 604800) @@
    ("2w" :> 1209600) @@ ("3w" :> 1814400) @@ ("6w" :> 3628800) @@
    ("1m" :> 2592000) @@ ("2m" :> 5184000) @@ ("3m" :> 7776000) @@
    ("6m" :> 15552000) @@ ("9m" :> 23328000) @@ ("1y" :> 31536000) @@
    ("2y" :> 63072000) @@ ("infinite" :> 0)

C9_Generate ==
    [][\A w \in Workers :
        /\ (pc[w] = "idle" /\ (last'.op = "generate" \/ pc'[w] = "insert")) =>
              \A p \in PlanInputs, t \in TokenPool : generate_plan(w, p, t) =>
                  LET plan == lower(p)
                      e == IF plan = "infinite" THEN None
                           ELSE Some(now + Ticks(PlanSeconds[plan]))
                  IN  /\ tokens' = tokens
                      /\ IF plan \notin DOMAIN PlanSeconds
                         THEN last'.op = "generate" /\ last'.status = 400
                         ELSE /\ pc'[w] = "insert"
                              /\ req'[w] = Some([plan |-> p])
                              /\ row'[w] = Some([token |-> t, expires_at |-> e])
        /\ (pc[w] = "insert" /\ pc'[w] = "idle" /\ generate_insert(w)) =>
              LET plan == lower(Val(req[w]).plan)
                  t == Val(row[w]).token
                  e == Val(row[w]).expires_at
              IN  /\ last'.op = "generate"
                  /\ last'.status # 200 => tokens' = tokens
                  /\ last'.status = 200 =>
                        /\ last'.body = [token |-> t, plan |-> plan, expires_at |-> e]
                        /\ [token |-> t, hwid |-> None, expires_at |-> e, revoked |-> 0]
                              \notin tokens
                        /\ tokens' = tokens \cup
                              {[token |-> t, hwid |-> None, expires_at |-> e, revoked |-> 0]}
                        /\ Cardinality(tokens') = Cardinality(tokens) + 1]_vars

\* a generate with plan "1D" was just answered with plan "1d" and its record
C9_Witness ==
    /\ last.op = "generate" /\ last.status = 200
    /\ last.args.plan = "1D" /\ last.body.plan = "1d"
    /\ last.body.expires_at = Some(now + Ticks(86400))
    /\ [token |-> last.body.token, hwid |-> None,
        expires_at |-> Some(now + Ticks(86400)), revoked |-> 0] \in tokens

----------------------------------------------------------------------------
(* C10: the table only grows: no step removes a record or changes its      *)
(* token string, a token string appears only in the INSERT of a generate,  *)
(* no two                                                                  *)
(* records share a token string, and a generate whose token collides with  *)
(* a record leaves the table as it is.                                     *)
TokenStrings(tbl) == {r.token : r \in tbl}

C10_TableGrows ==
    [][/\ tokens' # tokens =>
              /\ TokenStrings(tokens) \subseteq TokenStrings(tokens')
              /\ Cardinality(tokens') >= Cardinality(tokens)
              /\ \A r1, r2 \in tokens' : r1.token = r2.token => r1 = r2
              /\ TokenStrings(tokens') # TokenStrings(tokens) =>
                     /\ \E w \in Workers : pc[w] = "insert" /\ generate_insert(w)
                     /\ Cardinality(tokens') = Cardinality(tokens) + 1
       /\ last'.op = "generate" =>
              \A w \in Workers :
                  (/\ pc[w] = "insert"
                   /\ generate_insert(w)
                   /\ Val(row[w]).token \in TokenStrings(tokens)) => tokens' = tokens]_vars

\* a generate just drew the token string of a bound record and failed
C10_Witness ==
    /\ last.op = "generate" /\ last.status = 500
    /\ \E r \in tokens : r.token \in TokenPool /\ r.hwid # None

----------------------------------------------------------------------------
(* C11: an authorised admin_unbind or admin_revoke of a token string that  *)
(* has no record is answered 200 (status ok, status revoked), creates no   *)
(* record and leaves every record of the table as it is; and for a token   *)
(* that has a record the operation is idempotent: repeated right after     *)
(* itself on the same token it leaves the table as the first application   *)
(* left it.                                                                *)
C11_MissingAndIdempotent ==
    [][last'.op \in {"admin_unbind", "admin_revoke"} =>
       LET t == last'.args.token
           k == last'.args.x_admin_key
       IN  require_admin(k) =>
        /\ admin_unbind(t, k) =>
              /\ Stored(t) = None =>
                    /\ last'.status = 200 /\ last'.body = [status |-> "ok"]
                    /\ tokens' = tokens
              /\ (last.op = "admin_unbind" /\ last.status = 200 /\ last.args.token = t)
                    => tokens' = tokens
        /\ admin_revoke(t, k) =>
              /\ Stored(t) = None =>
                    /\ last'.status = 200 /\ last'.body = [status |-> "revoked"]
                    /\ tokens' = tokens
              /\ (last.op = "admin_revoke" /\ last.status = 200 /\ last.args.token = t)
                    => tokens' = tokens]_vars

----------------------------------------------------------------------------
(* C12: an authorised admin_verify is answered 404 Token not found when    *)
(* the token has no record; otherwise 200 with the hwid, revoked flag and  *)
(* expires_at its SELECT found stored, and seconds_remaining null when     *)
(* expires_at is null; admin_verify never changes the table.  As claimed,  *)
(* seconds_remaining is max(0, expires_at - now); in the code it is that   *)
(* value cut to whole seconds.                                             *)

\* max(0, expires_at - now), in clock ticks
Remaining(e, t) == IF Val(e) - t > 0 THEN Val(e) - t ELSE 0

\* what admin_verify answers and leaves, given the test on seconds_remaining
InspectAnswers(SecondsOk(_, _)) ==
    \A w \in Workers :
        /\ (pc[w] = "idle" /\ (last'.op = "admin_verify" \/ pc'[w] = "remaining")) =>
              \A t \in Presented, k \in Headers : admin_verify_select(w, t, k) =>
                  /\ tokens' = tokens
                  /\ require_admin(k) =>
                        IF Stored(t) = None
                        THEN /\ last'.status = 404
                             /\ last'.body = [detail |-> "Token not found"]
                        ELSE /\ pc'[w] = "remaining"
                             /\ Val(req'[w]).token = t
                             /\ row'[w] = Stored(t)
        /\ (pc[w] = "remaining" /\ pc'[w] = "idle" /\ admin_verify_remaining(w)) =>
              LET r == Val(row[w])
              IN  /\ tokens' = tokens
                  /\ last'.op = "admin_verify"
                  /\ last'.status = 200
                  /\ last'.body.token = Val(req[w]).token
                  /\ last'.body.hwid = r.hwid
                  /\ last'.body.revoked = (r.revoked = 1)
                  /\ last'.body.expires_at = r.expires_at
                  /\ IF r.expires_at = None
                     THEN last'.body.seconds_remaining = None
                     ELSE /\ last'.body.seconds_remaining # None
                          /\ SecondsOk(Val(last'.body.seconds_remaining),
                                       Remaining(r.expires_at, now))

\* the seconds returned are exactly the time remaining
ExactSeconds(s, remaining) == Ticks(s) = remaining

\* the seconds returned are the whole seconds of the time remaining
WholeSeconds(s, remaining) == Ticks(s) <= remaining /\ remaining < Ticks(s + 1)

\* the claim as stated
C12_InspectExact == [][InspectAnswers(ExactSeconds)]_vars

\* the claim with seconds_remaining cut to whole seconds
C12_Inspect == [][InspectAnswers(WholeSeconds)]_vars

\* the admin just inspected a token with a fraction of a second more than
\* seconds_remaining left
C12_Witness ==
    /\ last.op = "admin_verify" /\ last.status = 200
    /\ last.body.seconds_remaining # None
    /\ Stored(last.body.token) # None
    /\ Val(Stored(last.body.token)).expires_at = last.body.expires_at
    /\ Ticks(Val(last.body.seconds_remaining)) < Val(last.body.expires_at) - now

----------------------------------------------------------------------------
(* C13: two overlapping verifies of the same unbound valid token with      *)
(* different hwids can both read hwid null, both write and both be         *)
(* answered ok: a verify reaches its UPDATE only after reading hwid null,  *)
(* and its UPDATE, when it gets the write lock, is answered ok and stores  *)
(* its own hwid whatever the record holds by then, so the last write wins  *)
(* and the second request is not refused with HWID mismatch.               *)
C13_LastWriteWins ==
    [][\A w \in Workers :
        /\ (pc[w] = "selected" /\ pc'[w] = "update") =>
              (row[w] # None /\ Val(row[w]).hwid = None)
        /\ (Updates(w) /\ ~locked) =>
              LET t == Val(req[w]).token
                  h == Val(req[w]).hwid
              IN  /\ VerifyAnswer(w, StatusOk)
                  /\ Val(StoredNext(t)).hwid = Some(h)]_vars

\* the first of two overlapping verifies was just answered ok and has bound
\* its hwid, and the second one, with another hwid, is about to run its UPDATE
C13_Witness ==
    \E w \in Workers, t \in Presented, h \in Hwids :
        /\ last = Exchange("verify", [token |-> t, hwid |-> h], StatusOk, None)
        /\ Valid(Stored(t), now)
        /\ Val(Stored(t)).hwid = Some(h)
        /\ pc[w] = "update"
        /\ Val(req[w]).token = t
        /\ Val(req[w]).hwid # h
        /\ ~locked

----------------------------------------------------------------------------
(* C14: a stored hwid changes from a value to null only in an admin_unbind *)
(* of that token: no step of generate, verify, admin_verify or             *)
(* admin_revoke, in any interleaving, resets the hwid of a bound token.    *)
C14_OnlyUnbindClears ==
    [][tokens' # tokens =>
       \A t \in Presented :
        (/\ Stored(t) # None
         /\ Val(Stored(t)).hwid # None
         /\ (StoredNext(t) = None \/ Val(StoredNext(t)).hwid = None))
        => \E k \in Headers : require_admin(k) /\ admin_unbind(t, k)]_vars

\* the admin just revoked a bound token while a verify of it is in progress,
\* and the token is still bound
C14_Witness ==
    \E w \in Workers, t \in Presented :
        /\ last.op = "admin_revoke" /\ last.status = 200 /\ last.args.token = t
        /\ Stored(t) # None
        /\ Val(Stored(t)).hwid # None
        /\ Val(Stored(t)).revoked = 1
        /\ pc[w] \in {"selected", "update"}
        /\ Val(req[w]).token = t

----------------------------------------------------------------------------
(* C15: with the environment variable ADMIN_KEY not set, an admin request  *)
(* is accepted exactly when its X-Admin-Key header carries the default key *)
(* and is answered 401 when the header is absent or carries another value. *)
C15_DefaultKeyFallback ==
    (environ = None /\ last.op \in AdminOps) =>
        IF last.args.x_admin_key = Some(DEFAULT_ADMIN_KEY)
        THEN last.status # 401
        ELSE last.status = 401

----------------------------------------------------------------------------
(* C16: verify changes nothing but the hwid of the record it names, and    *)
(* only in the UPDATE of a first-use bind, that is, on a record whose hwid *)
(* is null: its SELECT and its checks leave the table as it is, so every   *)
(* verify that is refused (Invalid token, Token revoked, Token expired,    *)
(* HWID mismatch) and every verify answered ok for an already matching     *)
(* hwid changes no record; its UPDATE changes no other record and no other *)
(* field, and no record whose hwid is set; and no step of any operation    *)
(* changes the expires_at of a record.                                     *)
C16_VerifyFrame ==
    [][/\ \A w \in Workers :
            /\ (pc[w] = "idle" /\ pc'[w] = "selected") => tokens' = tokens
            /\ Checks(w) => tokens' = tokens
            /\ (Answers(w) /\ last'.op = "verify" /\ last'.status # 200) => tokens' = tokens
            /\ (/\ Answers(w)
                /\ last'.op = "verify"
                /\ last'.status = 200
                /\ Stored(Val(req[w]).token) # None
                /\ Val(Stored(Val(req[w]).token)).hwid = Some(Val(req[w]).hwid))
               => tokens' = tokens
            /\ Updates(w) =>
                  LET t == Val(req[w]).token
                      h == Val(req[w]).hwid
                  IN  /\ {r \in tokens' : r.token # t} = {r \in tokens : r.token # t}
                      /\ \A r \in tokens : r.token = t =>
                            \/ r \in tokens'
                            \/ [r EXCEPT !.hwid = Some(h)] \in tokens'
                      /\ Cardinality(tokens') = Cardinality(tokens)
                      /\ \A r \in tokens : (r.token = t /\ r.hwid # None) => r \in tokens'
       /\ tokens' # tokens =>
            \A t \in Presented : Stored(t) # None =>
                /\ StoredNext(t) # None
                /\ Val(StoredNext(t)).expires_at = Val(Stored(t)).expires_at]_vars

----------------------------------------------------------------------------
(* C17: verify never binds an hwid to a revoked token: no step gives a     *)
(* value to the hwid of a record whose revoked flag is already 1, and no   *)
(* verify is answered ok once an admin_revoke of its token has completed,  *)
(* also when the admin_revoke commits between the verify's SELECT and its  *)
(* UPDATE.                                                                 *)
C17_NoBindAfterRevoke ==
    [][/\ \A t \in Presented :
            (/\ Stored(t) # None
             /\ Val(Stored(t)).revoked = 1
             /\ StoredNext(t) # None
             /\ Val(StoredNext(t)).hwid # Val(Stored(t)).hwid)
            => Val(StoredNext(t)).hwid = None
       /\ \A w \in Workers :
            (Answers(w) /\ Val(req[w]).token \in revokeDone)
            => ~VerifyAnswer(w, StatusOk)]_vars

----------------------------------------------------------------------------
(* C18: expiry is permanent: once a verify of a token was answered Token   *)
(* expired the record stays past its expires_at in every later state,      *)
(* whatever admin_unbind, admin_revoke and generate do in between; a       *)
(* verify that starts in such a state reads the record, and a verify that  *)
(* runs its checks in such a state is not answered ok and does not go on   *)
(* to the UPDATE: with the record read it is answered Token expired, or    *)
(* Token revoked if the token was revoked.                                 *)

\* the record of token string t exists and the clock is past its expires_at
PastExpiry(t) == Stored(t) # None /\ Expired(Val(Stored(t)).expires_at, now)

\* PastExpiry(t) in the state this step leads to
PastExpiryNext(t) == StoredNext(t) # None /\ Expired(Val(StoredNext(t)).expires_at, now')

C18_ExpiryPermanent ==
    [][/\ (tokens' # tokens \/ now' # now) =>
            \A t \in Presented : PastExpiry(t) => PastExpiryNext(t)
       /\ \A w \in Workers :
            LET t == Val(req[w]).token
            IN  /\ VerifyAnswer(w, TokenExpired) => PastExpiry(t)
                /\ (Checks(w) /\ PastExpiry(t)) =>
                      /\ pc'[w] # "update"
                      /\ ~VerifyAnswer(w, StatusOk)
                      /\ row[w] # None =>
                            \/ VerifyAnswer(w, TokenExpired)
                            \/ (Val(row[w]).revoked = 1 /\ VerifyAnswer(w, TokenRevoked))
       /\ \A w \in Workers, t \in TokenPool :
            (pc[w] = "idle" /\ pc'[w] = "selected" /\ PastExpiry(t)
                /\ Val(req'[w]).token = t)
            => row'[w] # None]_vars

\* a verify of an expired token that the admin has unbound was just answered
\* Token expired
C18_Witness ==
    \E t \in Presented, h \in Hwids :
        /\ last = Exchange("verify", [token |-> t, hwid |-> h], TokenExpired, None)
        /\ PastExpiry(t)
        /\ Val(Stored(t)).hwid = None
        /\ Val(Stored(t)).revoked = 0

====
